---- MODULE Spec2Model ----
(***************************************************************************)
(* The job/video coordinator of the video-processing platform API server:  *)
(* the request handlers of routes/jobs.js, routes/videos.js and            *)
(* routes/auth.js over the relational store (tables users, videos,         *)
(* video_tags, processing_jobs), the Redis list video_processing_queue and *)
(* the Redis session keys.                                                 *)
(*                                                                         *)
(* Every handler is an async function: the code between two awaits runs    *)
(* without interruption, and other requests may run at every await.  Each  *)
(* action below is one such segment: it performs the awaited query (one    *)
(* atomic statement of the store, or one Redis command) and the            *)
(* synchronous code that follows it up to the next await or the response.  *)
(***************************************************************************)
EXTENDS Integers, Sequences, FiniteSets, TLC

\* ---------------------------------------------------------------- bounds
MaxVideos == 1
MaxJobs == 2
MaxRequests == 3

VideoIds == 1..MaxVideos
JobIds == 1..MaxJobs

\* The request slots: two requests can be in flight at once.
Procs == {1, 2}

\* ------------------------------------------------------------ value sets
Null == "null"              \* SQL NULL in a text or JSONB column
Undefined == "undefined"    \* a string or object field the request body lacks
Omitted == <<>>             \* a numeric field the request body lacks
Given(n) == <<n>>           \* a numeric field the request body carries
NoRow == <<>>               \* a query that returned no row

\* The authenticated callers (req.user, set by authenticateToken).
Callers ==
  { [id |-> "u1", role |-> "user"],
    [id |-> "u2", role |-> "user"],
    [id |-> "adm", role |-> "admin"] }

JobTypes ==
  {"encoding", "thumbnail", "metadata_extraction", "quality_analysis", "upload_to_cdn"}

validStatuses == {"queued", "in_progress", "completed", "failed", "cancelled"}

TerminalStatuses == {"completed", "failed", "cancelled"}

\* Inputs the requests are drawn from.
CreateInputs ==
  { [job_type |-> "encoding", priority |-> Omitted, settings |-> Undefined],
    [job_type |-> "thumbnail", priority |-> Given(10), settings |-> "s1"],
    [job_type |-> "encoding", priority |-> Given(57), settings |-> "s1"] }
StatusBody(st, pr, em, rd) ==
  [status |-> st, progress |-> pr, error_message |-> em, result_data |-> rd]

UpdateInputs ==
  { StatusBody("in_progress", Given(50), Undefined, Undefined),
    StatusBody("in_progress", Omitted, "e1", "r1"),
    StatusBody("completed", Given(101), Undefined, "r1"),
    StatusBody("completed", Omitted, Undefined, Undefined),
    StatusBody("failed", Given(-1), "e1", Undefined),
    StatusBody("cancelled", Omitted, Undefined, Undefined),
    StatusBody("queued", Omitted, Undefined, Undefined),
    StatusBody("bogus", Omitted, Undefined, Undefined) }

VARIABLES
  videos,        \* table videos: id -> row, for the rows that exist
  tags,          \* table video_tags: the video ids that have tag rows
  jobs,          \* table processing_jobs: id -> row, for the rows that exist
  queue,         \* Redis list video_processing_queue, head first
  nextVideo,     \* the video ids uuidv4() has handed out are 1..nextVideo-1
  nextJob,       \* the job ids uuidv4() has handed out are 1..nextJob-1
  pc,            \* each request slot's position in its handler
  req,           \* each request slot's request
  loc,           \* each request slot's local variables
  resp,          \* the response sent last
  nreq,          \* how many requests have been started
  awaiting,      \* history: jobs whose latest entry into queued no worker consumed
  everInserted,  \* history: job ids a processing_jobs row was ever inserted for
  lastOutcome,   \* history: per video, the terminal status updateStatus wrote last
                 \* to the row of one of its encoding jobs (Null: none, or the
                 \* call that wrote it ended in an error)
  users,         \* table users: id -> row, for the rows that exist
  sessions,      \* Redis keys session:<id>: the user ids that have one
  tokens,        \* history: the user ids generateToken was called for
  nextUser       \* the user ids uuidv4() has handed out are 1..nextUser-1

vars ==
  <<videos, tags, jobs, queue, nextVideo, nextJob, pc, req, loc, resp, nreq,
    awaiting, everInserted, lastOutcome, users, sessions, tokens, nextUser>>

dbVars == <<videos, tags, jobs>>
idVars == <<nextVideo, nextJob>>
histVars == <<awaiting, everInserted, lastOutcome>>
authVars == <<users, sessions, tokens, nextUser>>

\* ------------------------------------------------------------- requests
NoReq ==
  [op |-> "none", caller |-> Null, id |-> 0, job_type |-> Undefined,
   priority |-> Omitted, settings |-> Undefined, status |-> Undefined,
   progress |-> Omitted, error_message |-> Undefined,
   result_data |-> Undefined, tags |-> FALSE, title |-> Undefined,
   privacy |-> Undefined, email |-> Undefined, role |-> Undefined]

\* A handler's locals, and what the statements it has run did: `wrote` is
\* whether its UPDATE matched a row, removedTags and removedJobs are the rows
\* its DELETEs removed.
NoLoc ==
  [job |-> NoRow, videoId |-> 0, jobId |-> 0, userId |-> 0, wrote |-> FALSE,
   removedTags |-> FALSE, removedJobs |-> {}]

\* A response: the HTTP status, the error code, and for a read the ids of the
\* video rows and job rows its body holds.
NoResp ==
  [slot |-> 0, op |-> "none", status |-> 0, code |-> "none", videos |-> {},
   jobs |-> {}]

Init ==
  /\ videos = <<>>
  /\ tags = {}
  /\ jobs = <<>>
  /\ queue = <<>>
  /\ nextVideo = 1
  /\ nextJob = 1
  /\ pc = [p \in Procs |-> "idle"]
  /\ req = [p \in Procs |-> NoReq]
  /\ loc = [p \in Procs |-> NoLoc]
  /\ resp = NoResp
  /\ nreq = 0
  /\ awaiting = {}
  /\ everInserted = {}
  /\ lastOutcome = [v \in VideoIds |-> Null]
  /\ users = <<>>
  /\ sessions = {}
  /\ tokens = {}
  /\ nextUser = 1

\* A request r arrives at a slot whose previous request has been answered, and
\* its handler, with locals l, starts at `label`.
Start(p, r, l, label) ==
  /\ pc[p] \in {"idle", "done"}
  /\ nreq < MaxRequests
  /\ nreq' = nreq + 1
  /\ req' = [req EXCEPT ![p] = r]
  /\ loc' = [loc EXCEPT ![p] = l]
  /\ pc' = [pc EXCEPT ![p] = label]
  /\ UNCHANGED resp

\* res.json({videos: ..., jobs: ...}): the handler ends with a body that holds
\* the video rows vs and the job rows js, and its request and locals are gone.
RespondWith(p, s, c, vs, js) ==
  /\ pc' = [pc EXCEPT ![p] = "done"]
  /\ resp' = [slot |-> p, op |-> req[p].op, status |-> s, code |-> c,
              videos |-> vs, jobs |-> js]
  /\ req' = [req EXCEPT ![p] = NoReq]
  /\ loc' = [loc EXCEPT ![p] = NoLoc]

\* res.status(s).json({code: c}): the handler ends and its request and locals
\* are gone.
Respond(p, s, c) == RespondWith(p, s, c, {}, {})

\* A request arrives and is answered before its handler awaits anything.
StartRejected(p, r, s, c) ==
  /\ pc[p] \in {"idle", "done"}
  /\ nreq < MaxRequests
  /\ nreq' = nreq + 1
  /\ pc' = [pc EXCEPT ![p] = "done"]
  /\ resp' = [slot |-> p, op |-> r.op, status |-> s, code |-> c, videos |-> {},
              jobs |-> {}]
  /\ req' = [req EXCEPT ![p] = NoReq]
  /\ loc' = [loc EXCEPT ![p] = NoLoc]

\* The handler goes on to the await at `label` with locals l.
Goto(p, label, l) ==
  /\ pc' = [pc EXCEPT ![p] = label]
  /\ loc' = [loc EXCEPT ![p] = l]
  /\ UNCHANGED <<req, resp>>

\* --------------------------------------------------------------- store
\* A processing_jobs table without the reference to videos(id): any insert of a
\* job row is accepted.
NoFkJobInsert(vid) == TRUE

\* processing_jobs.video_id REFERENCES videos(id): an insert of a job row needs
\* the video row, and a video row that job rows reference cannot be deleted.
FkAllowsJobInsert(vid) == vid \in DOMAIN videos

FkAllowsVideoDelete(vid) == \A j \in DOMAIN jobs : jobs[j].video_id # vid

InsertRow(table, id, row) == table @@ (id :> row)

DeleteRows(table, ids) == [x \in DOMAIN table \ ids |-> table[x]]

\* The row INSERT INTO processing_jobs writes; the columns the statement does not
\* name take the table's defaults.
NewJobRow(vid, type, prio, settings) ==
  [video_id |-> vid, job_type |-> type, status |-> "queued", priority |-> prio,
   progress |-> 0, settings |-> settings, error_message |-> Null,
   result_data |-> Null, completed_at |-> Null]

\* A push at the tail of the list, where the worker takes from.
rPush(q, d) == q \o <<d>>

\* redisClient.lPush: the new element becomes the head of the list.
lPush(q, d) == <<d>> \o q

\* A test that lets every caller pass.
AnyCaller(caller, owner) == TRUE

\* The owner-or-admin test every handler that has one spells the same way.
OwnerOrAdmin(caller, owner) == caller.id = owner \/ caller.role = "admin"

\* ------------------------------------------------------- POST /api/videos
\* schemas.videoUpload: privacy is one of three values, public when the body
\* lacks it.
Privacies == {"public", "private", "unlisted"}

DefaultPrivacy == {"public"}

\* videoId = uuidv4() runs before the first await; jobId = uuidv4() is as fresh
\* whenever it runs, so both ids are drawn here.
StartUpload(p, callers, tagInputs, privacies) ==
  \E c \in callers, t \in tagInputs, pr \in privacies :
    /\ nextVideo <= MaxVideos
    /\ nextJob <= MaxJobs
    /\ Start(p, [NoReq EXCEPT !.op = "upload", !.caller = c, !.tags = t,
                             !.privacy = pr],
             [NoLoc EXCEPT !.videoId = nextVideo, !.jobId = nextJob], "up_video")
    /\ nextVideo' = nextVideo + 1
    /\ nextJob' = nextJob + 1
    /\ UNCHANGED <<dbVars, queue, histVars, authVars>>

\* An upload that records the first user as the owner, whoever calls.
UploadVideoOwnedByFirstUser(p) ==
  /\ pc[p] = "up_video"
  /\ videos' = InsertRow(videos, loc[p].videoId,
                         [user_id |-> "u1", status |-> "pending", title |-> "t1",
                          privacy |-> req[p].privacy])
  /\ Goto(p, IF req[p].tags THEN "up_tags" ELSE "up_job", loc[p])
  /\ UNCHANGED <<tags, jobs, queue, idVars, authVars, nreq, histVars>>

\* INSERT INTO videos ... 'pending'
UploadVideo(p) ==
  /\ pc[p] = "up_video"
  /\ videos' = InsertRow(videos, loc[p].videoId,
                         [user_id |-> req[p].caller.id, status |-> "pending",
                          title |-> "t1", privacy |-> req[p].privacy])
  /\ Goto(p, IF req[p].tags THEN "up_tags" ELSE "up_job", loc[p])
  /\ UNCHANGED <<tags, jobs, queue, idVars, authVars, nreq, histVars>>

\* INSERT INTO video_tags
UploadTags(p) ==
  /\ pc[p] = "up_tags"
  /\ tags' = tags \cup {loc[p].videoId}
  /\ Goto(p, "up_job", loc[p])
  /\ UNCHANGED <<videos, jobs, queue, idVars, authVars, nreq, histVars>>

\* INSERT INTO processing_jobs ... 'metadata_extraction', 'queued', 5
UploadJob(p) ==
  /\ pc[p] = "up_job"
  /\ IF FkAllowsJobInsert(loc[p].videoId)
       THEN /\ jobs' = InsertRow(jobs, loc[p].jobId,
                          NewJobRow(loc[p].videoId, "metadata_extraction", 5, Null))
            /\ everInserted' = everInserted \cup {loc[p].jobId}
            /\ awaiting' = awaiting \cup {loc[p].jobId}
            /\ UNCHANGED lastOutcome
            /\ Goto(p, "up_publish", loc[p])
       ELSE /\ Respond(p, 500, "UPLOAD_ERROR")
            /\ UNCHANGED <<jobs, histVars>>
  /\ UNCHANGED <<videos, tags, queue, idVars, authVars, nreq>>

\* redisClient.lPush('video_processing_queue', ...), then 201
UploadPublish(p) ==
  /\ pc[p] = "up_publish"
  /\ \/ LET d == [job_id |-> loc[p].jobId, video_id |-> loc[p].videoId,
                  job_type |-> "metadata_extraction", priority |-> 5,
                  settings |-> Undefined]
        IN /\ queue' = lPush(queue, d)
           /\ Respond(p, 201, "CREATED")
     \/ \* the command is rejected: catch, 500
        /\ Respond(p, 500, "UPLOAD_ERROR")
        /\ UNCHANGED queue
  /\ UNCHANGED <<dbVars, idVars, authVars, nreq, histVars>>

\* --------------------------------------------------------- POST /api/jobs
\* A schema whose priority is any number.
ValidJobBodyAnyPriority(b) ==
  /\ b.video_id \in VideoIds
  /\ b.job_type \in JobTypes

\* schemas.processingJob under validate(): whether the body is accepted.
ValidJobBody(b) ==
  /\ b.video_id \in VideoIds
  /\ b.job_type \in JobTypes
  /\ b.priority # Omitted => b.priority[1] \in 1..10

\* ... and the value validate() puts in req.body: priority defaults to 5.
JobBodyValue(b) ==
  [b EXCEPT !.priority = IF b.priority = Omitted THEN 5 ELSE b.priority[1]]

\* validate(schemas.processingJob) and jobId = uuidv4().
StartCreate(p, callers, inputs) ==
  \E c \in callers, v \in VideoIds, i \in inputs :
    LET b == [video_id |-> v, job_type |-> i.job_type, priority |-> i.priority,
              settings |-> i.settings]
        r == [NoReq EXCEPT !.op = "create", !.caller = c, !.id = v,
                           !.job_type = i.job_type, !.priority = i.priority,
                           !.settings = i.settings]
    IN IF ValidJobBody(b)
         THEN /\ nextJob <= MaxJobs
              /\ Start(p, [r EXCEPT !.priority = Given(JobBodyValue(b).priority)],
                       [NoLoc EXCEPT !.jobId = nextJob], "c_read")
              /\ nextJob' = nextJob + 1
              /\ UNCHANGED <<dbVars, queue, nextVideo, histVars, authVars>>
         ELSE /\ StartRejected(p, r, 400, "VALIDATION_ERROR")
              /\ UNCHANGED <<dbVars, queue, idVars, authVars, histVars>>

\* A create that does not stop when the SELECT returns no row.
CreateReadNoRowCheck(p) ==
  /\ pc[p] = "c_read"
  /\ LET vid == req[p].id IN
     IF vid \in DOMAIN videos /\ ~OwnerOrAdmin(req[p].caller, videos[vid].user_id)
       THEN Respond(p, 403, "NOT_AUTHORIZED")
     ELSE IF vid \in DOMAIN videos /\ videos[vid].status = "failed"
       THEN Respond(p, 400, "INVALID_VIDEO_STATUS")
     ELSE Goto(p, "c_insert", loc[p])
  /\ UNCHANGED <<dbVars, queue, idVars, authVars, nreq, histVars>>

\* SELECT user_id, status FROM videos WHERE id = $1, and the three checks.
CreateRead(p) ==
  /\ pc[p] = "c_read"
  /\ LET vid == req[p].id IN
     IF vid \notin DOMAIN videos
       THEN Respond(p, 404, "VIDEO_NOT_FOUND")
     ELSE IF ~OwnerOrAdmin(req[p].caller, videos[vid].user_id)
       THEN Respond(p, 403, "NOT_AUTHORIZED")
     ELSE IF videos[vid].status = "failed"
       THEN Respond(p, 400, "INVALID_VIDEO_STATUS")
     ELSE Goto(p, "c_insert", loc[p])
  /\ UNCHANGED <<dbVars, queue, idVars, authVars, nreq, histVars>>

\* INSERT INTO processing_jobs ... 'queued' ... RETURNING *
CreateInsert(p) ==
  /\ pc[p] = "c_insert"
  /\ IF FkAllowsJobInsert(req[p].id)
       THEN LET row == NewJobRow(req[p].id, req[p].job_type, req[p].priority[1],
                                 IF req[p].settings # Undefined
                                   THEN req[p].settings ELSE Null)
            IN /\ jobs' = InsertRow(jobs, loc[p].jobId, row)
               /\ everInserted' = everInserted \cup {loc[p].jobId}
               /\ awaiting' = awaiting \cup {loc[p].jobId}
               /\ UNCHANGED lastOutcome
               /\ Goto(p, "c_publish", [loc[p] EXCEPT !.job = row])
       ELSE /\ Respond(p, 500, "CREATE_JOB_ERROR")
            /\ UNCHANGED <<jobs, histVars>>
  /\ UNCHANGED <<videos, tags, queue, idVars, authVars, nreq>>

\* A publish that sends the default priority in place of the request's.
CreatePublishDefaultPriority(p) ==
  /\ pc[p] = "c_publish"
  /\ \/ LET d == [job_id |-> loc[p].jobId, video_id |-> req[p].id,
                  job_type |-> req[p].job_type, priority |-> 5,
                  settings |-> req[p].settings]
        IN /\ queue' = lPush(queue, d)
           /\ Respond(p, 201, "CREATED")
     \/ /\ Respond(p, 500, "CREATE_JOB_ERROR")
        /\ UNCHANGED queue
  /\ UNCHANGED <<dbVars, idVars, authVars, nreq, histVars>>

\* redisClient.lPush('video_processing_queue', ...), then 201
CreatePublish(p) ==
  /\ pc[p] = "c_publish"
  /\ \/ LET d == [job_id |-> loc[p].jobId, video_id |-> req[p].id,
                  job_type |-> req[p].job_type, priority |-> req[p].priority[1],
                  settings |-> req[p].settings]
        IN /\ queue' = lPush(queue, d)
           /\ Respond(p, 201, "CREATED")
     \/ \* the command is rejected: catch, 500
        /\ Respond(p, 500, "CREATE_JOB_ERROR")
        /\ UNCHANGED queue
  /\ UNCHANGED <<dbVars, idVars, authVars, nreq, histVars>>

\* ----------------------------------------------- PUT /api/jobs/:id/status
\* Math.max(0, Math.min(100, progress))
Min(a, b) == IF a < b THEN a ELSE b

Max(a, b) == IF a > b THEN a ELSE b

\* A progress stored as supplied.
UnclampedProgress(n) == n

ClampProgress(n) == Max(0, Min(100, n))

\* The status check runs before the first await.
StartUpdateStatus(p, callers, inputs) ==
  \E c \in callers, j \in JobIds, i \in inputs :
    LET r == [NoReq EXCEPT !.op = "updateStatus", !.caller = c, !.id = j,
                           !.status = i.status, !.progress = i.progress,
                           !.error_message = i.error_message,
                           !.result_data = i.result_data]
    IN /\ IF i.status \in validStatuses
            THEN Start(p, r, NoLoc, "us_read")
            ELSE StartRejected(p, r, 400, "INVALID_STATUS")
       /\ UNCHANGED <<dbVars, queue, idVars, authVars, histVars>>

\* An updateStatus that answers 200 when the SELECT returns no row.
UpdateStatusReadMissingIsOk(p) ==
  /\ pc[p] = "us_read"
  /\ IF req[p].id \notin DOMAIN jobs
       THEN Respond(p, 200, "OK")
       ELSE Goto(p, "us_write", [loc[p] EXCEPT !.job = jobs[req[p].id]])
  /\ UNCHANGED <<dbVars, queue, idVars, authVars, nreq, histVars>>

\* SELECT * FROM processing_jobs WHERE id = $1
UpdateStatusRead(p) ==
  /\ pc[p] = "us_read"
  /\ IF req[p].id \notin DOMAIN jobs
       THEN Respond(p, 404, "JOB_NOT_FOUND")
       ELSE Goto(p, "us_write", [loc[p] EXCEPT !.job = jobs[req[p].id]])
  /\ UNCHANGED <<dbVars, queue, idVars, authVars, nreq, histVars>>

\* An update that resets progress when the request omits it.
UpdatedJobRowResetsProgress(row, r) ==
  [row EXCEPT
     !.status = r.status,
     !.progress = IF r.progress # Omitted THEN ClampProgress(r.progress[1]) ELSE 0,
     !.error_message = IF r.error_message # Undefined THEN r.error_message ELSE @,
     !.result_data = IF r.result_data # Undefined THEN r.result_data ELSE @,
     !.completed_at = IF r.status = "completed" THEN "now" ELSE @]

\* The row UPDATE processing_jobs SET ${updateFields} makes of `row`.
UpdatedJobRow(row, r) ==
  [row EXCEPT
     !.status = r.status,
     !.progress = IF r.progress # Omitted THEN ClampProgress(r.progress[1]) ELSE @,
     !.error_message = IF r.error_message # Undefined THEN r.error_message ELSE @,
     !.result_data = IF r.result_data # Undefined THEN r.result_data ELSE @,
     !.completed_at = IF r.status = "completed" THEN "now" ELSE @]

\* A propagation that has the completed branch only.
PropagatedOnCompletionOnly(status, job) ==
  IF status = "completed" /\ job.job_type = "encoding" THEN "completed" ELSE Null

\* A propagation that also marks the video processing when a job starts.
PropagatedWithProcessing(status, job) ==
  IF status = "completed" /\ job.job_type = "encoding" THEN "completed"
  ELSE IF status = "failed" THEN "failed"
  ELSE IF status = "in_progress" THEN "processing"
  ELSE Null

\* Which video status, if any, the handler goes on to write.
PropagatedStatus(status, job) ==
  IF status = "completed" /\ job.job_type = "encoding" THEN "completed"
  ELSE IF status = "failed" THEN "failed"
  ELSE Null

\* UPDATE processing_jobs SET ... WHERE id = $1 RETURNING *
UpdateStatusWrite(p) ==
  /\ pc[p] = "us_write"
  /\ LET j == req[p].id IN
     /\ IF j \in DOMAIN jobs
          THEN /\ jobs' = [jobs EXCEPT ![j] = UpdatedJobRow(@, req[p])]
               /\ awaiting' = IF req[p].status = "queued" /\ jobs[j].status # "queued"
                                THEN awaiting \cup {j} ELSE awaiting
               /\ lastOutcome' =
                    IF req[p].status \in {"completed", "failed"}
                         /\ jobs[j].job_type = "encoding"
                      THEN [lastOutcome EXCEPT ![jobs[j].video_id] = req[p].status]
                      ELSE lastOutcome
          ELSE UNCHANGED <<jobs, awaiting, lastOutcome>>
     /\ IF PropagatedStatus(req[p].status, loc[p].job) # Null
          THEN Goto(p, "us_video", [loc[p] EXCEPT !.wrote = j \in DOMAIN jobs])
          ELSE Respond(p, 200, "OK")
  /\ UNCHANGED <<videos, tags, queue, idVars, authVars, nreq, everInserted>>

\* UPDATE videos SET status = $1, updated_at = NOW() WHERE id = $2
UpdateStatusVideo(p) ==
  /\ pc[p] = "us_video"
  /\ \/ LET vid == loc[p].job.video_id IN
        /\ videos' = IF vid \in DOMAIN videos
                       THEN [videos EXCEPT ![vid].status =
                               PropagatedStatus(req[p].status, loc[p].job)]
                       ELSE videos
        /\ Respond(p, 200, "OK")
        /\ UNCHANGED lastOutcome
     \/ \* the query is rejected: catch, 500
        /\ Respond(p, 500, "UPDATE_JOB_STATUS_ERROR")
        /\ lastOutcome' = IF loc[p].job.job_type = "encoding"
                             THEN [lastOutcome EXCEPT ![loc[p].job.video_id] = Null]
                             ELSE lastOutcome
        /\ UNCHANGED videos
  /\ UNCHANGED <<tags, jobs, queue, idVars, authVars, nreq, awaiting, everInserted>>

\* -------------------------------------------------- POST /api/jobs/:id/cancel
StartCancel(p, callers) ==
  \E c \in callers, j \in JobIds :
    /\ Start(p, [NoReq EXCEPT !.op = "cancel", !.caller = c, !.id = j], NoLoc,
             "cancel_read")
    /\ UNCHANGED <<dbVars, queue, idVars, authVars, histVars>>

\* A cancel without the authorization check.
CancelReadAnyCaller(p) ==
  /\ pc[p] = "cancel_read"
  /\ LET j == req[p].id IN
     IF j \notin DOMAIN jobs
       THEN Respond(p, 404, "JOB_NOT_FOUND")
     ELSE IF jobs[j].status \in {"completed", "failed", "cancelled"}
       THEN Respond(p, 400, "CANNOT_CANCEL_JOB")
     ELSE Goto(p, "cancel_write", [loc[p] EXCEPT !.job = jobs[j]])
  /\ UNCHANGED <<dbVars, queue, idVars, authVars, nreq, histVars>>

\* SELECT pj.*, v.user_id FROM processing_jobs pj LEFT JOIN videos v ..., and the
\* two checks.
CancelRead(p) ==
  /\ pc[p] = "cancel_read"
  /\ LET j == req[p].id IN
     IF j \notin DOMAIN jobs
       THEN Respond(p, 404, "JOB_NOT_FOUND")
     ELSE LET owner == IF jobs[j].video_id \in DOMAIN videos
                         THEN videos[jobs[j].video_id].user_id ELSE Null
          IN IF ~OwnerOrAdmin(req[p].caller, owner)
               THEN Respond(p, 403, "NOT_AUTHORIZED")
             ELSE IF jobs[j].status \in {"completed", "failed", "cancelled"}
               THEN Respond(p, 400, "CANNOT_CANCEL_JOB")
             ELSE Goto(p, "cancel_write", [loc[p] EXCEPT !.job = jobs[j]])
  /\ UNCHANGED <<dbVars, queue, idVars, authVars, nreq, histVars>>

\* A cancel whose UPDATE also resets progress.
CancelWriteResetsProgress(p) ==
  /\ pc[p] = "cancel_write"
  /\ LET j == req[p].id IN
     IF j \in DOMAIN jobs
       THEN jobs' = [jobs EXCEPT ![j].status = "cancelled", ![j].progress = 0]
       ELSE UNCHANGED jobs
  /\ Respond(p, 200, "OK")
  /\ UNCHANGED <<videos, tags, queue, idVars, authVars, nreq, histVars>>

\* UPDATE processing_jobs SET status = 'cancelled', updated_at = NOW() WHERE id = $1
CancelWrite(p) ==
  /\ pc[p] = "cancel_write"
  /\ LET j == req[p].id IN
     IF j \in DOMAIN jobs
       THEN jobs' = [jobs EXCEPT ![j].status = "cancelled"]
       ELSE UNCHANGED jobs
  /\ Respond(p, 200, "OK")
  /\ UNCHANGED <<videos, tags, queue, idVars, authVars, nreq, histVars>>

\* ---------------------------------------------------- DELETE /api/videos/:id
StartDelete(p, callers) ==
  \E c \in callers, v \in VideoIds :
    /\ Start(p, [NoReq EXCEPT !.op = "delete", !.caller = c, !.id = v], NoLoc,
             "del_read")
    /\ UNCHANGED <<dbVars, queue, idVars, authVars, histVars>>

\* SELECT user_id, file_path FROM videos WHERE id = $1, the check, and BEGIN.
\* Every pool.query runs on whichever pooled connection is free, so each of the
\* statements that follow takes effect on its own.
DeleteRead(p) ==
  /\ pc[p] = "del_read"
  /\ LET vid == req[p].id IN
     IF vid \notin DOMAIN videos
       THEN Respond(p, 404, "VIDEO_NOT_FOUND")
     ELSE IF ~OwnerOrAdmin(req[p].caller, videos[vid].user_id)
       THEN Respond(p, 403, "NOT_AUTHORIZED")
     ELSE Goto(p, "del_tags", loc[p])
  /\ UNCHANGED <<dbVars, queue, idVars, authVars, nreq, histVars>>

\* DELETE FROM video_tags WHERE video_id = $1
DeleteTags(p) ==
  /\ pc[p] = "del_tags"
  /\ tags' = tags \ {req[p].id}
  /\ Goto(p, "del_jobs", [loc[p] EXCEPT !.removedTags = req[p].id \in tags])
  /\ UNCHANGED <<videos, jobs, queue, idVars, authVars, nreq, histVars>>

\* DELETE FROM processing_jobs WHERE video_id = $1
DeleteJobs(p) ==
  /\ pc[p] = "del_jobs"
  /\ LET js == {j \in DOMAIN jobs : jobs[j].video_id = req[p].id}
     IN /\ jobs' = DeleteRows(jobs, js)
        /\ Goto(p, "del_video", [loc[p] EXCEPT !.removedJobs = js])
  /\ UNCHANGED <<videos, tags, queue, idVars, authVars, nreq, histVars>>

\* DELETE FROM videos WHERE id = $1 and COMMIT; or the statement fails, ROLLBACK.
DeleteVideo(p) ==
  /\ pc[p] = "del_video"
  /\ IF FkAllowsVideoDelete(req[p].id)
       THEN /\ videos' = DeleteRows(videos, {req[p].id})
            /\ Respond(p, 200, "OK")
       ELSE /\ Respond(p, 500, "DELETE_ERROR")
            /\ UNCHANGED videos
  /\ UNCHANGED <<tags, jobs, queue, idVars, authVars, nreq, histVars>>

\* ------------------------------------------------------- PUT /api/videos/:id
\* Patches the requests are drawn from: a new title, a status, both, neither,
\* and a status the schema does not list.
MetadataPatches ==
  { [title |-> "t2", status |-> Undefined],
    [title |-> Undefined, status |-> "completed"],
    [title |-> "t2", status |-> "failed"],
    [title |-> Undefined, status |-> Undefined],
    [title |-> Undefined, status |-> "bogus"] }

\* schemas.videoUpdate under validate(): whether the body is accepted.
ValidVideoUpdate(b) ==
  b.status \in {Undefined, "pending", "processing", "completed", "failed"}

StartUpdateMetadata(p, callers, patches) ==
  \E c \in callers, v \in VideoIds, b \in patches :
    LET r == [NoReq EXCEPT !.op = "updateMetadata", !.caller = c, !.id = v,
                           !.title = b.title, !.status = b.status]
    IN /\ IF ValidVideoUpdate(b)
            THEN Start(p, r, NoLoc, "um_read")
            ELSE StartRejected(p, r, 400, "VALIDATION_ERROR")
       /\ UNCHANGED <<dbVars, queue, idVars, authVars, histVars>>

\* A metadata update without the authorization check.
UpdateMetadataReadAnyCaller(p) ==
  /\ pc[p] = "um_read"
  /\ LET vid == req[p].id IN
     IF vid \notin DOMAIN videos
       THEN Respond(p, 404, "VIDEO_NOT_FOUND")
     ELSE IF req[p].title = Undefined /\ req[p].status = Undefined
       THEN Respond(p, 400, "NO_UPDATE_FIELDS")
     ELSE Goto(p, "um_write", loc[p])
  /\ UNCHANGED <<dbVars, queue, idVars, authVars, nreq, histVars>>

\* SELECT user_id FROM videos WHERE id = $1, the two checks, and the update
\* fields built from the body.
UpdateMetadataRead(p) ==
  /\ pc[p] = "um_read"
  /\ LET vid == req[p].id IN
     IF vid \notin DOMAIN videos
       THEN Respond(p, 404, "VIDEO_NOT_FOUND")
     ELSE IF ~OwnerOrAdmin(req[p].caller, videos[vid].user_id)
       THEN Respond(p, 403, "NOT_AUTHORIZED")
     ELSE IF req[p].title = Undefined /\ req[p].status = Undefined
       THEN Respond(p, 400, "NO_UPDATE_FIELDS")
     ELSE Goto(p, "um_write", loc[p])
  /\ UNCHANGED <<dbVars, queue, idVars, authVars, nreq, histVars>>

\* The row UPDATE videos SET ${updateFields} makes of `row`.
UpdatedVideoRow(row, r) ==
  [row EXCEPT
     !.title = IF r.title # Undefined THEN r.title ELSE @,
     !.status = IF r.status # Undefined THEN r.status ELSE @]

\* UPDATE videos SET ... WHERE id = $n RETURNING *
UpdateMetadataWrite(p) ==
  /\ pc[p] = "um_write"
  /\ LET vid == req[p].id IN
     videos' = IF vid \in DOMAIN videos
                 THEN [videos EXCEPT ![vid] = UpdatedVideoRow(@, req[p])]
                 ELSE videos
  /\ Respond(p, 200, "OK")
  /\ UNCHANGED <<tags, jobs, queue, idVars, authVars, nreq, histVars>>

\* ------------------------------------------------------------- the reads
\* optionalAuth lets a request without a token pass, with no req.user.
Anonymous == [id |-> Null, role |-> "anonymous"]

Readers == Callers \cup {Anonymous}

\* The status filters the list requests are drawn from: none, two video
\* statuses and three job statuses.
ListFilters ==
  {Undefined, "pending", "completed", "failed", "queued", "in_progress", "cancelled"}

\* schemas.listQuery under validate(): whether the query is accepted.
ValidListQuery(q) ==
  q.status \in {Undefined, "pending", "processing", "completed", "failed"}

\* schemas.uuidParam under validate(): the parameters must hold a uuid named id.
ValidUuidParam(names) == "id" \in names

\* The privacy filter of the video reads: public rows, and for a caller with a
\* token the caller's own.
PrivacyFilter(caller, row) ==
  IF caller = Anonymous
    THEN row.privacy = "public"
    ELSE row.privacy = "public" \/ row.user_id = caller.id

StatusFilter(status, row) == status = Undefined \/ row.status = status

\* GET /api/videos
StartListVideos(p, callers, filters) ==
  \E c \in callers, f \in filters :
    LET r == [NoReq EXCEPT !.op = "listVideos", !.caller = c, !.status = f]
    IN /\ IF ValidListQuery([status |-> f])
            THEN Start(p, r, NoLoc, "lv_count")
            ELSE StartRejected(p, r, 400, "VALIDATION_ERROR")
       /\ UNCHANGED <<dbVars, queue, idVars, authVars, histVars>>

\* SELECT COUNT(*) FROM videos WHERE ...
ListVideosCount(p) ==
  /\ pc[p] = "lv_count"
  /\ Goto(p, "lv_select", loc[p])
  /\ UNCHANGED <<dbVars, queue, idVars, authVars, nreq, histVars>>

\* SELECT v.* ... FROM videos v ... WHERE ... LIMIT 20 OFFSET 0
ListVideosSelect(p) ==
  /\ pc[p] = "lv_select"
  /\ RespondWith(p, 200, "OK",
                 {v \in DOMAIN videos : /\ PrivacyFilter(req[p].caller, videos[v])
                                        /\ StatusFilter(req[p].status, videos[v])},
                 {})
  /\ UNCHANGED <<dbVars, queue, idVars, authVars, nreq, histVars>>

\* GET /api/videos/:id
StartGetVideo(p, callers) ==
  \E c \in callers, v \in VideoIds :
    /\ IF ValidUuidParam({"id"})
         THEN Start(p, [NoReq EXCEPT !.op = "getVideo", !.caller = c, !.id = v],
                    NoLoc, "gv_video")
         ELSE StartRejected(p, [NoReq EXCEPT !.op = "getVideo"], 400, "VALIDATION_ERROR")
    /\ UNCHANGED <<dbVars, queue, idVars, authVars, histVars>>

\* SELECT v.* ... FROM videos v ... WHERE v.id = $1 AND ...
GetVideoRead(p) ==
  /\ pc[p] = "gv_video"
  /\ LET vid == req[p].id IN
     IF vid \in DOMAIN videos /\ PrivacyFilter(req[p].caller, videos[vid])
       THEN Goto(p, "gv_jobs", [loc[p] EXCEPT !.videoId = vid])
       ELSE Respond(p, 404, "VIDEO_NOT_FOUND")
  /\ UNCHANGED <<dbVars, queue, idVars, authVars, nreq, histVars>>

\* SELECT * FROM processing_jobs WHERE video_id = $1, and the body with the video
\* row read before and these job rows.
GetVideoJobs(p) ==
  /\ pc[p] = "gv_jobs"
  /\ RespondWith(p, 200, "OK", {loc[p].videoId},
                 {j \in DOMAIN jobs : jobs[j].video_id = req[p].id})
  /\ UNCHANGED <<dbVars, queue, idVars, authVars, nreq, histVars>>

\* GET /api/videos/user/:userId: the route's parameter is named userId, and
\* validate(schemas.uuidParam, 'params') asks for one named id.
StartUserVideos(p, callers) ==
  \E c \in callers :
    /\ IF ValidUuidParam({"userId"})
         THEN Start(p, [NoReq EXCEPT !.op = "userVideos", !.caller = c], NoLoc,
                    "uv_count")
         ELSE StartRejected(p, [NoReq EXCEPT !.op = "userVideos", !.caller = c],
                            400, "VALIDATION_ERROR")
    /\ UNCHANGED <<dbVars, queue, idVars, authVars, histVars>>

\* GET /api/jobs/video/:videoId: the same, with a parameter named videoId.
StartVideoJobs(p, callers) ==
  \E c \in callers :
    /\ IF ValidUuidParam({"videoId"})
         THEN Start(p, [NoReq EXCEPT !.op = "videoJobs", !.caller = c], NoLoc,
                    "vj_video")
         ELSE StartRejected(p, [NoReq EXCEPT !.op = "videoJobs", !.caller = c],
                            400, "VALIDATION_ERROR")
    /\ UNCHANGED <<dbVars, queue, idVars, authVars, histVars>>

\* GET /api/jobs, for a caller requireRole(['admin']) has let pass.
StartListJobs(p, callers, filters) ==
  \E c \in callers, f \in filters :
    LET r == [NoReq EXCEPT !.op = "listJobs", !.caller = c, !.status = f]
    IN /\ IF ValidListQuery([status |-> f])
            THEN Start(p, r, NoLoc, "lj_count")
            ELSE StartRejected(p, r, 400, "VALIDATION_ERROR")
       /\ UNCHANGED <<dbVars, queue, idVars, authVars, histVars>>

\* SELECT COUNT(*) FROM processing_jobs pj WHERE ...
ListJobsCount(p) ==
  /\ pc[p] = "lj_count"
  /\ Goto(p, "lj_select", loc[p])
  /\ UNCHANGED <<dbVars, queue, idVars, authVars, nreq, histVars>>

\* SELECT pj.* ... FROM processing_jobs pj ... WHERE ... LIMIT 20 OFFSET 0
ListJobsSelect(p) ==
  /\ pc[p] = "lj_select"
  /\ RespondWith(p, 200, "OK", {},
                 {j \in DOMAIN jobs : StatusFilter(req[p].status, jobs[j])})
  /\ UNCHANGED <<dbVars, queue, idVars, authVars, nreq, histVars>>

\* GET /api/jobs/:id
StartGetJob(p, callers) ==
  \E c \in callers, j \in JobIds :
    /\ IF ValidUuidParam({"id"})
         THEN Start(p, [NoReq EXCEPT !.op = "getJob", !.caller = c, !.id = j],
                    NoLoc, "gj_read")
         ELSE StartRejected(p, [NoReq EXCEPT !.op = "getJob"], 400, "VALIDATION_ERROR")
    /\ UNCHANGED <<dbVars, queue, idVars, authVars, histVars>>

\* SELECT pj.*, v.user_id ... FROM processing_jobs pj LEFT JOIN videos v ...
\* WHERE pj.id = $1, and the two checks.
GetJobRead(p) ==
  /\ pc[p] = "gj_read"
  /\ LET j == req[p].id IN
     IF j \notin DOMAIN jobs
       THEN Respond(p, 404, "JOB_NOT_FOUND")
     ELSE LET owner == IF jobs[j].video_id \in DOMAIN videos
                         THEN videos[jobs[j].video_id].user_id ELSE Null
          IN IF ~OwnerOrAdmin(req[p].caller, owner)
               THEN Respond(p, 403, "NOT_AUTHORIZED")
               ELSE RespondWith(p, 200, "OK", {}, {j})
  /\ UNCHANGED <<dbVars, queue, idVars, authVars, nreq, histVars>>

\* ------------------------------------------------- POST /api/auth/register
\* The bodies the requests are drawn from: two emails, with and without a role,
\* and a password too short for the schema.  A password is its length.
RegisterInputs ==
  { [email |-> "a@x", password |-> 8, role |-> Undefined],
    [email |-> "b@x", password |-> 8, role |-> "admin"],
    [email |-> "a@x", password |-> 7, role |-> Undefined] }

\* schemas.userRegistration under validate(): whether the body is accepted.
ValidUserRegistration(b) ==
  /\ b.email # Undefined
  /\ b.password >= 8
  /\ b.role \in {Undefined, "user", "admin"}

\* A users table without the UNIQUE constraint: any email is accepted.
NoUniqueEmail(e) == TRUE

\* users.email UNIQUE: an insert needs an email no row has.
UniqueAllowsEmail(e) == \A u \in DOMAIN users : users[u].email # e

\* validate(schemas.userRegistration); userId = uuidv4() is as fresh whenever
\* it runs, so the id is drawn here.
StartRegister(p, inputs) ==
  \E b \in inputs :
    LET r == [NoReq EXCEPT !.op = "register", !.email = b.email,
                           !.role = IF b.role = Undefined THEN "user" ELSE b.role]
    IN IF ValidUserRegistration(b)
         THEN /\ Start(p, r, [NoLoc EXCEPT !.userId = nextUser], "reg_read")
              /\ nextUser' = nextUser + 1
              /\ UNCHANGED <<dbVars, queue, idVars, histVars, users, sessions, tokens>>
         ELSE /\ StartRejected(p, r, 400, "VALIDATION_ERROR")
              /\ UNCHANGED <<dbVars, queue, idVars, histVars, authVars>>

\* SELECT id FROM users WHERE email = $1, and the check.
RegisterRead(p) ==
  /\ pc[p] = "reg_read"
  /\ IF \E u \in DOMAIN users : users[u].email = req[p].email
       THEN Respond(p, 409, "USER_EXISTS")
       ELSE Goto(p, "reg_hash", loc[p])
  /\ UNCHANGED <<dbVars, queue, idVars, nreq, histVars, authVars>>

\* await bcrypt.hash(password, saltRounds)
RegisterHash(p) ==
  /\ pc[p] = "reg_hash"
  /\ Goto(p, "reg_insert", loc[p])
  /\ UNCHANGED <<dbVars, queue, idVars, nreq, histVars, authVars>>

\* INSERT INTO users ... RETURNING ..., and generateToken(user).
RegisterInsert(p) ==
  /\ pc[p] = "reg_insert"
  /\ IF UniqueAllowsEmail(req[p].email)
       THEN /\ users' = InsertRow(users, loc[p].userId,
                                  [email |-> req[p].email, role |-> req[p].role])
            /\ tokens' = tokens \cup {loc[p].userId}
            /\ Goto(p, "reg_session", loc[p])
       ELSE /\ Respond(p, 500, "REGISTRATION_ERROR")
            /\ UNCHANGED <<users, tokens>>
  /\ UNCHANGED <<dbVars, queue, idVars, nreq, histVars, sessions, nextUser>>

\* redisClient.setEx(`session:${user.id}`, ...), then 201 with the token
RegisterSession(p) ==
  /\ pc[p] = "reg_session"
  /\ \/ /\ sessions' = sessions \cup {loc[p].userId}
        /\ Respond(p, 201, "CREATED")
     \/ \* the command is rejected: catch, 500
        /\ Respond(p, 500, "REGISTRATION_ERROR")
        /\ UNCHANGED sessions
  /\ UNCHANGED <<dbVars, queue, idVars, nreq, histVars, users, tokens, nextUser>>

\* ------------------------------------------------------------- the worker
\* A worker takes the oldest descriptor off the tail of the list.
Consume ==
  /\ queue # <<>>
  /\ queue' = SubSeq(queue, 1, Len(queue) - 1)
  /\ awaiting' = awaiting \ {queue[Len(queue)].job_id}
  /\ UNCHANGED <<dbVars, idVars, authVars, pc, req, loc, resp, nreq, everInserted, lastOutcome>>

\* One step of a handler that is past its start.
Step(p) ==
  \/ UploadVideo(p)
  \/ UploadTags(p)
  \/ UploadJob(p)
  \/ UploadPublish(p)
  \/ CreateRead(p)
  \/ CreateInsert(p)
  \/ CreatePublish(p)
  \/ UpdateStatusRead(p)
  \/ UpdateStatusWrite(p)
  \/ UpdateStatusVideo(p)
  \/ CancelRead(p)
  \/ CancelWrite(p)
  \/ DeleteRead(p)
  \/ DeleteTags(p)
  \/ DeleteJobs(p)
  \/ DeleteVideo(p)

\* The callers by their relation to the videos: uploads here are u1's, so u1 is
\* the owner, u2 another user and adm an admin.
Owner == {c \in Callers : c.id = "u1"}

\* The callers whose role is user: the owner u1 and u2, who owns no video.
Users == {c \in Callers : c.role = "user"}

\* The callers whose role is admin: the workers report with an admin's token.
Admins == {c \in Callers : c.role = "admin"}

\* Requests from the whole input sets, one at a time.
NextSeq ==
  \/ StartUpload(1, Owner, BOOLEAN, DefaultPrivacy)
  \/ StartCreate(1, Callers, CreateInputs)
  \/ StartUpdateStatus(1, Users, UpdateInputs)
  \/ StartCancel(1, Callers)
  \/ StartDelete(1, Callers)
  \/ Step(1)
  \/ Consume

SpecSeq == Init /\ [][NextSeq]_vars

\* A handler that has started runs to its end: the event loop resumes every
\* awaited call that has settled.
SpecSeqLive == SpecSeq /\ WF_vars(Step(1))

\* The video catalog's requests, one at a time, by every caller: upload,
\* metadata update and delete, with the worker taking descriptors.
NextCatalog ==
  \/ StartUpload(1, Callers, BOOLEAN, DefaultPrivacy)
  \/ UploadVideo(1)
  \/ UploadTags(1)
  \/ UploadJob(1)
  \/ UploadPublish(1)
  \/ StartUpdateMetadata(1, Callers, MetadataPatches)
  \/ UpdateMetadataRead(1)
  \/ UpdateMetadataWrite(1)
  \/ StartDelete(1, Callers)
  \/ DeleteRead(1)
  \/ DeleteTags(1)
  \/ DeleteJobs(1)
  \/ DeleteVideo(1)
  \/ Consume

SpecCatalog == Init /\ [][NextCatalog]_vars

\* The reads, one request at a time, over the videos the callers upload with
\* each privacy and the jobs an admin's token reports on.
ReadUpdateInputs ==
  {i \in UpdateInputs : i.progress = Omitted /\ i.error_message = Undefined
                          /\ i.status \in {"in_progress", "completed"}}

NextReads ==
  \/ StartUpload(1, Users, {FALSE}, Privacies)
  \/ UploadVideo(1)
  \/ UploadJob(1)
  \/ UploadPublish(1)
  \/ StartUpdateStatus(1, Admins, ReadUpdateInputs)
  \/ UpdateStatusRead(1)
  \/ UpdateStatusWrite(1)
  \/ StartListVideos(1, Readers, ListFilters)
  \/ ListVideosCount(1)
  \/ ListVideosSelect(1)
  \/ StartGetVideo(1, Readers)
  \/ GetVideoRead(1)
  \/ GetVideoJobs(1)
  \/ StartUserVideos(1, Readers)
  \/ StartVideoJobs(1, Callers)
  \/ StartListJobs(1, Admins, ListFilters)
  \/ ListJobsCount(1)
  \/ ListJobsSelect(1)
  \/ StartGetJob(1, Callers)
  \/ GetJobRead(1)

SpecReads == Init /\ [][NextReads]_vars

\* Requests that overlap, all of them the owner's (from two sessions, say), on
\* the inputs the races are about.
RaceCreateInputs == {i \in CreateInputs : i.job_type = "encoding" /\ i.priority = Omitted}

RaceUpdateInputs ==
  {i \in UpdateInputs : i.progress # Omitted /\ i.status \in {"in_progress", "completed", "failed"}}

\* A request takes the first slot unless a handler is running there: which slot
\* holds a request makes no difference to what the handlers do.
TakesSlot(p) == p = 1 \/ pc[1] \notin {"idle", "done"}

Next ==
  \/ \E p \in Procs :
       \/ TakesSlot(p) /\ StartUpload(p, Owner, {TRUE}, DefaultPrivacy)
       \/ TakesSlot(p) /\ StartCreate(p, Owner, RaceCreateInputs)
       \/ TakesSlot(p) /\ StartUpdateStatus(p, Owner, RaceUpdateInputs)
       \/ TakesSlot(p) /\ StartCancel(p, Owner)
       \/ TakesSlot(p) /\ StartDelete(p, Owner)
       \/ Step(p)
  \/ Consume

Spec == Init /\ [][Next]_vars

\* Registrations that overlap.
NextRegister ==
  \E p \in Procs :
    \/ TakesSlot(p) /\ StartRegister(p, RegisterInputs)
    \/ RegisterRead(p)
    \/ RegisterHash(p)
    \/ RegisterInsert(p)
    \/ RegisterSession(p)

SpecRegister == Init /\ [][NextRegister]_vars

\* Outcomes of the encoding jobs of one video are reported while the owner may
\* create further jobs on it.  The start is a state after u1 has uploaded video
\* 1, its metadata_extraction job (id 0) has completed, and encoding jobs 1..n
\* have been created on it, taken off the queue and reported in_progress.
InitOutcomes ==
  \E n \in 1..MaxJobs :
    /\ videos = (1 :> [user_id |-> "u1", status |-> "pending", title |-> "t1",
                        privacy |-> "public"])
    /\ tags = {}
    /\ jobs = [j \in 0..n |->
                 IF j = 0
                   THEN [NewJobRow(1, "metadata_extraction", 5, Null) EXCEPT
                           !.status = "completed", !.completed_at = "now"]
                   ELSE [NewJobRow(1, "encoding", 5, Null) EXCEPT
                           !.status = "in_progress"]]
    /\ queue = <<>>
    /\ nextVideo = 2
    /\ nextJob = n + 1
    /\ pc = [p \in Procs |-> "idle"]
    /\ req = [p \in Procs |-> NoReq]
    /\ loc = [p \in Procs |-> NoLoc]
    /\ resp = NoResp
    /\ nreq = 0
    /\ awaiting = {}
    /\ everInserted = 0..n
    /\ lastOutcome = [v \in VideoIds |-> Null]
    /\ users = <<>>
    /\ sessions = {}
    /\ tokens = {}
    /\ nextUser = 1

OutcomeInputs == {i \in RaceUpdateInputs : i.status \in {"completed", "failed"}}

NextOutcomes ==
  \E p \in Procs :
    \/ TakesSlot(p) /\ StartUpdateStatus(p, Admins, OutcomeInputs)
    \/ UpdateStatusRead(p)
    \/ UpdateStatusWrite(p)
    \/ UpdateStatusVideo(p)
    \/ TakesSlot(p) /\ StartCreate(p, Owner, RaceCreateInputs)
    \/ CreateRead(p)
    \/ CreateInsert(p)
    \/ CreatePublish(p)

SpecOutcomes == InitOutcomes /\ [][NextOutcomes]_vars

\* ================================================================ claims
\* The transition table of the job state machine.
AllowedTransitions ==
  { <<"queued", "in_progress">>, <<"queued", "cancelled">>,
    <<"in_progress", "completed">>, <<"in_progress", "failed">>,
    <<"in_progress", "cancelled">> }

\* Slot p's handler answers in this step.
Answers(p) == pc[p] \notin {"idle", "done"} /\ pc'[p] = "done"

OnQueue(j) == \E i \in 1..Len(queue) : queue[i].job_id = j

\* C1: every change of a job's status is one of the five transitions of the
\* table.
C1_StatusWalk ==
  [][\A j \in DOMAIN jobs \cap DOMAIN jobs' :
       jobs'[j].status # jobs[j].status
         => <<jobs[j].status, jobs'[j].status>> \in AllowedTransitions]_vars

\* C2: while an updateStatus call is in flight whose (current status, requested
\* status) pair is not in the table, no step changes a job row or a video row,
\* and the call is answered with an error.
C2_InvalidTransitionRejected ==
  [][(/\ req[1].op = "updateStatus"
      /\ req[1].id \in DOMAIN jobs
      /\ <<jobs[req[1].id].status, req[1].status>> \notin AllowedTransitions)
       => /\ jobs' = jobs
          /\ videos' = videos
          /\ Answers(1) => resp'.status >= 400]_vars

\* C3: a job row whose status is completed, failed or cancelled is not changed
\* by any step.
C3_TerminalImmutable ==
  [][\A j \in DOMAIN jobs \cap DOMAIN jobs' :
       jobs[j].status \in TerminalStatuses => jobs'[j] = jobs[j]]_vars

\* C4: an updateStatus(queued -> in_progress) call that read the job as queued
\* and writes after another call has already moved the job to in_progress is not
\* answered with success: of two such calls only one succeeds.
C4_OneWinner ==
  [][\A p \in Procs :
       (/\ pc[p] = "us_write"
        /\ Answers(p)
        /\ req[p].status = "in_progress"
        /\ loc[p].job.status = "queued"
        /\ req[p].id \in DOMAIN jobs
        /\ jobs[req[p].id].status = "in_progress")
         => resp'.status \in {400, 409}]_vars

\* C5: in every reachable state every job row's video_id is the id of a video
\* row that exists.
C5_JobsReferenceVideos == \A j \in DOMAIN jobs : jobs[j].video_id \in DOMAIN videos

\* C5 witness: a delete that had removed the video's job rows was refused the
\* removal of the video row, because a job row was inserted in between.
C5_Witness ==
  /\ resp.op = "delete"
  /\ resp.code = "DELETE_ERROR"
  /\ \E j \in DOMAIN jobs : jobs[j].video_id \in DOMAIN videos

\* The job whose row is inserted and whose descriptor the same handler has yet
\* to publish.
PublishInFlight(j) ==
  \E p \in Procs : pc[p] \in {"c_publish", "up_publish"} /\ loc[p].jobId = j

\* C6: apart from the window between a handler's row insert and its publish, a
\* descriptor of job j is on the queue if and only if j's latest entry into
\* queued has not been consumed.
C6_QueueMatchesQueued ==
  \A j \in JobIds : ~PublishInFlight(j) => (OnQueue(j) <=> j \in awaiting)

SettingsValue(x) == IF x \in {Null, Undefined} THEN Null ELSE x

\* The descriptor d carries the job row's fields.
DescribesRow(d, id, row) ==
  /\ d.job_id = id
  /\ d.video_id = row.video_id
  /\ d.job_type = row.job_type
  /\ d.priority = row.priority
  /\ SettingsValue(d.settings) = SettingsValue(row.settings)

CreateCommitted(j) ==
  \E p \in Procs : pc[p] = "c_publish" /\ loc[p].jobId = j /\ j \in DOMAIN jobs

\* C8: once create has committed the row of job j, a descriptor of j is
\* eventually on the queue, unless the row is gone or has left queued: whatever
\* the first publish does, the row is not left queued and unpublished for ever.
C8_CommittedRowEventuallyPublished ==
  \A j \in JobIds :
    CreateCommitted(j) ~> (OnQueue(j) \/ j \notin DOMAIN jobs \/ jobs[j].status # "queued")

\* C9: create does not answer with a failure while the row it inserted exists.
C9_NoFailureOnceRowExists ==
  [][\A p \in Procs :
       (pc[p] = "c_publish" /\ Answers(p) /\ loc[p].jobId \in DOMAIN jobs')
         => resp'.status = 201]_vars

\* An updateStatus call by slot p answers 200 in this step, having written
\* `status` to the row of a job of type `type`.
MovesJob(p, status, type) ==
  /\ req[p].op = "updateStatus"
  /\ req[p].status = status
  /\ Answers(p)
  /\ resp'.status = 200
  /\ loc[p].job.job_type = type
  /\ \/ pc[p] = "us_write" /\ req[p].id \in DOMAIN jobs
     \/ pc[p] = "us_video" /\ loc[p].wrote

\* C10: when an updateStatus call that moved an encoding job to completed (to
\* failed) answers 200, the parent video, if it exists, has status completed
\* (failed).
C10_EncodingOutcomePropagates ==
  [][\A p \in Procs : \A s \in {"completed", "failed"} :
       (MovesJob(p, s, "encoding") /\ loc[p].job.video_id \in DOMAIN videos')
         => videos'[loc[p].job.video_id].status = s]_vars

\* C10 witness: an updateStatus has been answered 200, an encoding job is
\* completed and its video is completed.
C10_Witness ==
  /\ resp.op = "updateStatus"
  /\ resp.status = 200
  /\ \E j \in DOMAIN jobs :
       /\ jobs[j].job_type = "encoding"
       /\ jobs[j].status = "completed"
       /\ jobs[j].video_id \in DOMAIN videos
       /\ videos[jobs[j].video_id].status = "completed"

\* C11: while an updateStatus call on a job whose type is not encoding is in
\* flight (the requests run one at a time), no step changes a video row.
C11_OtherTypesLeaveVideo ==
  [][(/\ req[1].op = "updateStatus"
      /\ loc[1].job # NoRow
      /\ loc[1].job.job_type # "encoding")
       => videos' = videos]_vars

\* No updateStatus call other than slot p's is running.
OnlyCallRunning(p) ==
  \A q \in Procs \ {p} : pc[q] \notin {"us_read", "us_write", "us_video"}

\* C12: when the last of the overlapping updateStatus calls answers 200 for an
\* encoding job whose row still holds the outcome it reported, the video's
\* status is the outcome written last to the row of an encoding job of the
\* video: a later outcome of another job is not overwritten.
C12_LastOutcomeWins ==
  [][\A p \in Procs :
       LET vid == loc[p].job.video_id IN
       (/\ pc[p] = "us_video"
        /\ Answers(p)
        /\ resp'.status = 200
        /\ OnlyCallRunning(p)
        /\ loc[p].job.job_type = "encoding"
        /\ req[p].id \in DOMAIN jobs
        /\ jobs[req[p].id].status = req[p].status
        /\ vid \in DOMAIN videos'
        /\ lastOutcome[vid] # Null)
         => videos'[vid].status = lastOutcome[vid]]_vars

\* The owner of the video of job j, for a job and a video that exist.
JobOwner(j) == videos[jobs[j].video_id].user_id

HasOwner(j) == j \in DOMAIN jobs /\ jobs[j].video_id \in DOMAIN videos

\* C13: while an updateStatus call by a caller who is neither the owner of the
\* job's video nor an admin is in flight (no caller is a worker identity), no
\* step changes a job row or a video row, and the call is answered with a
\* refusal.
C13_StrangerUpdateRejected ==
  [][(/\ req[1].op = "updateStatus"
      /\ HasOwner(req[1].id)
      /\ ~OwnerOrAdmin(req[1].caller, JobOwner(req[1].id)))
       => /\ jobs' = jobs
          /\ videos' = videos
          /\ Answers(1) => resp'.status \in {401, 403}]_vars

\* C14: while an updateStatus call with status completed or failed by the owner
\* of the job's video, whose role is user, is in flight, no step changes a job
\* row or a video row, and the call is answered with an error.
C14_OwnerCannotReportOutcome ==
  [][(/\ req[1].op = "updateStatus"
      /\ req[1].status \in {"completed", "failed"}
      /\ req[1].caller.role = "user"
      /\ HasOwner(req[1].id)
      /\ req[1].caller.id = JobOwner(req[1].id))
       => /\ jobs' = jobs
          /\ videos' = videos
          /\ Answers(1) => resp'.status >= 400]_vars

\* Slot p's handler takes a step.
Runs(p) == pc'[p] # pc[p]

\* C15: the step of cancel that reads the job answers 404 when no row has the
\* id, and 403 when the caller is neither the owner of the job's video nor an
\* admin; it changes no job row.
C15_CancelForbiddenOrNotFound ==
  [][\A p \in Procs :
       (pc[p] = "cancel_read" /\ Runs(p))
         => /\ req[p].id \notin DOMAIN jobs
                 => Answers(p) /\ resp'.status = 404 /\ jobs' = jobs
            /\ (HasOwner(req[p].id) /\ ~OwnerOrAdmin(req[p].caller, JobOwner(req[p].id)))
                 => Answers(p) /\ resp'.status = 403 /\ jobs' = jobs]_vars

\* C15 witness: u2's cancel of a job on u1's video was answered 403 and the job
\* is still queued.
C15_Witness ==
  /\ resp.op = "cancel"
  /\ resp.status = 403
  /\ \E j \in DOMAIN jobs : jobs[j].status = "queued" /\ HasOwner(j) /\ JobOwner(j) = "u1"

\* C16: a cancel answers 200 only if the job's status is queued or in_progress
\* when its UPDATE is applied.
C16_CancelOnlyLiveJob ==
  [][\A p \in Procs :
       (/\ pc[p] = "cancel_write"
        /\ Answers(p)
        /\ resp'.status = 200
        /\ req[p].id \in DOMAIN jobs)
         => jobs[req[p].id].status \in {"queued", "in_progress"}]_vars

\* C17: the step of cancel that answers 200 sets the status of the job's row to
\* cancelled and changes nothing else: not the row's other fields, not another
\* job row, not a video row or tag, not the queue.
C17_CancelChangesStatusOnly ==
  [][\A p \in Procs :
       (req[p].op = "cancel" /\ Answers(p) /\ resp'.status = 200)
         => /\ pc[p] = "cancel_write"
            /\ queue' = queue
            /\ videos' = videos
            /\ tags' = tags
            /\ jobs' = IF req[p].id \in DOMAIN jobs
                         THEN [jobs EXCEPT ![req[p].id].status = "cancelled"]
                         ELSE jobs]_vars

\* C17 witness: a cancel was answered 200; the job is cancelled, keeps the
\* progress and error message reported before, and its descriptor is still on
\* the queue.
C17_Witness ==
  /\ resp.op = "cancel"
  /\ resp.status = 200
  /\ \E j \in DOMAIN jobs :
       /\ jobs[j].status = "cancelled"
       /\ jobs[j].progress = 50
       /\ OnQueue(j)

\* C18: the step of create that reads the video answers 404 when no video has
\* the id; it inserts no job row and publishes no descriptor.
C18_CreateNotFound ==
  [][\A p \in Procs :
       (pc[p] = "c_read" /\ Runs(p) /\ req[p].id \notin DOMAIN videos)
         => /\ Answers(p)
            /\ resp'.status = 404
            /\ jobs' = jobs
            /\ queue' = queue]_vars

\* C18 witness: a create was answered 404 for which a job id had been drawn,
\* and there is no job row and no descriptor.
C18_Witness ==
  /\ resp.op = "create"
  /\ resp.status = 404
  /\ nextJob > 1
  /\ DOMAIN jobs = {}
  /\ queue = <<>>

\* C19: the step of create that reads the video answers 403 when the caller is
\* neither the video's owner nor an admin; it inserts no job row and publishes
\* no descriptor.
C19_CreateForbidden ==
  [][\A p \in Procs :
       (/\ pc[p] = "c_read"
        /\ Runs(p)
        /\ req[p].id \in DOMAIN videos
        /\ req[p].caller.id # videos[req[p].id].user_id
        /\ req[p].caller.role # "admin")
         => /\ Answers(p)
            /\ resp'.status = 403
            /\ jobs' = jobs
            /\ queue' = queue]_vars

\* C19 witness: a create on u1's video was answered 403; the video has the one
\* job of its upload and the queue no descriptor of another job.
C19_Witness ==
  /\ resp.op = "create"
  /\ resp.status = 403
  /\ 1 \in DOMAIN videos
  /\ videos[1].user_id = "u1"
  /\ nextJob = 3
  /\ DOMAIN jobs = {1}
  /\ \A i \in 1..Len(queue) : queue[i].job_id = 1

\* C20: the step of create that reads a video whose status is failed answers
\* 400 without inserting or publishing, and the step of create that inserts
\* the job row is never taken while the video's status is failed.
C20_NoJobOnFailedVideo ==
  [][\A p \in Procs :
       /\ (/\ pc[p] = "c_read"
           /\ Runs(p)
           /\ req[p].id \in DOMAIN videos
           /\ OwnerOrAdmin(req[p].caller, videos[req[p].id].user_id)
           /\ videos[req[p].id].status = "failed")
            => Answers(p) /\ resp'.status = 400 /\ jobs' = jobs /\ queue' = queue
       /\ (/\ pc[p] = "c_insert"
           /\ pc'[p] = "c_publish"
           /\ req[p].id \in DOMAIN videos)
            => videos[req[p].id].status # "failed"]_vars

\* C21: the step in which a create arrives either answers 400 VALIDATION_ERROR
\* with no row inserted and no descriptor published, or goes on with a priority
\* in 1..10; and the row that create inserts has that priority and progress 0.
C21_PriorityValidated ==
  [][\A p \in Procs :
       /\ (pc[p] \in {"idle", "done"} /\ pc'[p] = "c_read")
            => req'[p].priority # Omitted /\ req'[p].priority[1] \in 1..10
       /\ (/\ pc[p] \in {"idle", "done"}
           /\ resp' # resp
           /\ resp'.slot = p
           /\ resp'.op = "create")
            => /\ resp'.status = 400
               /\ resp'.code = "VALIDATION_ERROR"
               /\ jobs' = jobs
               /\ queue' = queue
       /\ (pc[p] = "c_insert" /\ pc'[p] = "c_publish")
            => /\ jobs'[loc[p].jobId].priority \in 1..10
               /\ jobs'[loc[p].jobId].progress = 0]_vars

\* C21 witness: a create was answered 400 VALIDATION_ERROR (its priority was
\* 57) after an earlier create with priority 10 had inserted its row.
C21_Witness ==
  /\ resp.op = "create"
  /\ resp.status = 400
  /\ resp.code = "VALIDATION_ERROR"
  /\ \E j \in DOMAIN jobs : jobs[j].priority = 10 /\ jobs[j].progress = 0

\* Slot p's updateStatus writes the row of its job in this step.
WritesJob(p) == pc[p] = "us_write" /\ Runs(p) /\ req[p].id \in DOMAIN jobs

\* C22: every job row's progress is in 0..100, and the write of an updateStatus
\* that supplies a progress stores 0 for one below 0, 100 for one above 100 and
\* the progress itself otherwise.
C22_ProgressClamped ==
  /\ [](\A j \in DOMAIN jobs : jobs[j].progress \in 0..100)
  /\ [][\A p \in Procs :
          (WritesJob(p) /\ req[p].progress # Omitted)
            => LET n == req[p].progress[1] IN
               jobs'[req[p].id].progress =
                 IF n < 0 THEN 0 ELSE IF n > 100 THEN 100 ELSE n]_vars

\* C22 witness: a job is completed with progress 100, stored for the 101 that
\* was supplied.
C22_Witness ==
  /\ resp.op = "updateStatus"
  /\ resp.status = 200
  /\ \E j \in DOMAIN jobs :
       /\ jobs[j].status = "completed"
       /\ jobs[j].progress = 100
       /\ jobs[j].result_data = "r1"

\* C23: the write of an updateStatus that omits progress leaves the progress of
\* the job's row as it was.
C23_OmittedProgressKept ==
  [][\A p \in Procs :
       (WritesJob(p) /\ req[p].progress = Omitted)
         => jobs'[req[p].id].progress = jobs[req[p].id].progress]_vars

\* C23 witness: a job reported in_progress at 50 was then set completed by a
\* call that omitted progress, and still has progress 50.
C23_Witness ==
  /\ resp.op = "updateStatus"
  /\ resp.status = 200
  /\ \E j \in DOMAIN jobs : jobs[j].status = "completed" /\ jobs[j].progress = 50

\* C24: a step changes a job row's error_message only as the write of an
\* updateStatus that sets failed, and its result_data only as the write of one
\* that sets completed.
C24_MessagesOnlyOnOutcome ==
  [][\A j \in DOMAIN jobs \cap DOMAIN jobs' :
       /\ jobs'[j].error_message # jobs[j].error_message
            => \E p \in Procs : WritesJob(p) /\ req[p].id = j /\ req[p].status = "failed"
       /\ jobs'[j].result_data # jobs[j].result_data
            => \E p \in Procs : WritesJob(p) /\ req[p].id = j /\ req[p].status = "completed"]_vars

\* C25: while an updateMetadata call whose patch has a status field is in
\* flight (the requests run one at a time), no step changes a video row, and
\* the call is answered with an error; and a step changes the status of a video
\* row only as the propagation write of an updateStatus.
C25_StatusNotPatchable ==
  [][/\ (req[1].op = "updateMetadata" /\ req[1].status # Undefined)
          => /\ videos' = videos
             /\ Answers(1) => resp'.status >= 400
     /\ \A v \in DOMAIN videos \cap DOMAIN videos' :
          videos'[v].status # videos[v].status
            => \E p \in Procs : pc[p] = "us_video" /\ Runs(p)]_vars

\* Slot p's caller is neither the owner of video v nor an admin.
Stranger(p, v) ==
  /\ v \in DOMAIN videos
  /\ req[p].caller.id # videos[v].user_id
  /\ req[p].caller.role # "admin"

\* C26: the step of updateMetadata or delete that reads the video answers 403
\* when the caller is neither its owner nor an admin; it changes no video row,
\* tag or job row.
C26_CatalogForbidden ==
  [][\A p \in Procs :
       (pc[p] \in {"um_read", "del_read"} /\ Runs(p) /\ Stranger(p, req[p].id))
         => /\ Answers(p)
            /\ resp'.status = 403
            /\ videos' = videos
            /\ tags' = tags
            /\ jobs' = jobs]_vars

\* C26 witness: a delete was answered 403, and the video, its tags and its job
\* are there.
C26_Witness ==
  /\ resp.op = "delete"
  /\ resp.status = 403
  /\ 1 \in DOMAIN videos
  /\ 1 \in tags
  /\ \E j \in DOMAIN jobs : jobs[j].video_id = 1

\* C27: a job row that is removed has a terminal status (a queued or
\* in_progress job of a deleted video is cancelled first), and when a delete
\* answers 200 the video row is gone and no job row references the video.
C27_DeleteCancelsFirst ==
  [][/\ \A j \in DOMAIN jobs \ DOMAIN jobs' : jobs[j].status \in TerminalStatuses
     /\ \A p \in Procs :
          (req[p].op = "delete" /\ Answers(p) /\ resp'.status = 200)
            => /\ req[p].id \notin DOMAIN videos'
               /\ \A j \in DOMAIN jobs' : jobs'[j].video_id # req[p].id]_vars

\* C28: a step changes the job table only as part of a create, an updateStatus
\* or a cancel.
C28_JobsChangedByJobOperationsOnly ==
  [][jobs' # jobs
       => \E p \in Procs :
            Runs(p) /\ req[p].op \in {"create", "updateStatus", "cancel"}]_vars

\* C29: the step of upload that inserts the video adds one row, whose owner is
\* the caller and whose status is pending; and when the upload answers 201 the
\* row is there, with that owner and status.
C29_UploadPersistsOwnerPending ==
  [][/\ (pc[1] = "up_video" /\ Runs(1))
          => /\ loc[1].videoId \notin DOMAIN videos
             /\ DOMAIN videos' = DOMAIN videos \cup {loc[1].videoId}
             /\ \A v \in DOMAIN videos : videos'[v] = videos[v]
             /\ videos'[loc[1].videoId].user_id = req[1].caller.id
             /\ videos'[loc[1].videoId].status = "pending"
     /\ (req[1].op = "upload" /\ Answers(1) /\ resp'.status = 201)
          => /\ loc[1].videoId \in DOMAIN videos'
             /\ videos'[loc[1].videoId].user_id = req[1].caller.id
             /\ videos'[loc[1].videoId].status = "pending"]_vars

\* C29 witness: an upload by u2 was answered 201 and u2's video is pending.
C29_Witness ==
  /\ resp.op = "upload"
  /\ resp.status = 201
  /\ \E v \in DOMAIN videos : videos[v].user_id = "u2" /\ videos[v].status = "pending"

\* C30: an updateStatus that has written a terminal status to the job row
\* answers 200 after the write of the video's status, whether that write was
\* done or refused, and the job row keeps the status.
C30_VideoWriteFailureIsSuccess ==
  [][\A p \in Procs :
       (/\ pc[p] = "us_video"
        /\ Answers(p)
        /\ loc[p].wrote
        /\ req[p].status \in TerminalStatuses)
         => /\ resp'.status = 200
            /\ req[p].id \in DOMAIN jobs' => jobs'[req[p].id].status = req[p].status]_vars

\* A request arrives at slot p and is answered at once.
Rejected(p) == pc[p] \in {"idle", "done"} /\ pc'[p] = "done" /\ nreq' # nreq

PublicVideos == {v \in DOMAIN videos : videos[v].privacy = "public"}

\* C31: the body of a read holds a video that is not public, or a job, only if
\* the caller is the owner of the video (of the job's video) or an admin; the
\* list of videos without a filter holds every public video and the read of a
\* public video holds that video, whoever calls; and the read of a user's
\* videos is not refused while that user has a public video.
C31_ReadsScopedByOwnership ==
  [][\A p \in Procs :
       /\ Answers(p)
            => /\ \A v \in resp'.videos \cap DOMAIN videos :
                    \/ v \in PublicVideos
                    \/ OwnerOrAdmin(req[p].caller, videos[v].user_id)
               /\ \A j \in resp'.jobs :
                    HasOwner(j) => OwnerOrAdmin(req[p].caller, JobOwner(j))
       /\ (Answers(p) /\ req[p].op = "listVideos" /\ req[p].status = Undefined)
            => PublicVideos \subseteq resp'.videos
       /\ (Answers(p) /\ req[p].op = "getVideo" /\ req[p].id \in PublicVideos)
            => req[p].id \in resp'.videos
       /\ (Rejected(p) /\ resp'.op = "userVideos") => PublicVideos = {}]_vars

\* C32: a listing of the jobs with a status filter that is a job status is not
\* refused, and its body holds exactly the jobs that have the status.
C32_JobListFilter ==
  [][\A p \in Procs :
       /\ (Rejected(p) /\ resp'.op = "listJobs") => FALSE
       /\ (Answers(p) /\ req[p].op = "listJobs" /\ req[p].status \in validStatuses)
            => /\ resp'.status = 200
               /\ resp'.jobs = {j \in DOMAIN jobs : jobs[j].status = req[p].status}]_vars

\* Where on the queue the descriptor of job j is; a job's descriptor is
\* published once.
QueueIndex(q, j) == CHOOSE i \in 1..Len(q) : q[i].job_id = j

OnQueueNext(j) == \E i \in 1..Len(queue') : queue'[i].job_id = j

C34_InvalidStatusOrMissingJob ==
  [][\A p \in Procs :
       /\ (pc[p] \in {"idle", "done"} /\ pc'[p] = "us_read")
            => req'[p].status \in validStatuses
       /\ (Rejected(p) /\ resp'.slot = p /\ resp'.op = "updateStatus")
            => /\ resp'.status = 400
               /\ resp'.code = "INVALID_STATUS"
               /\ jobs' = jobs /\ videos' = videos /\ queue' = queue
       /\ (pc[p] = "us_read" /\ Runs(p) /\ req[p].id \notin DOMAIN jobs)
            => /\ Answers(p)
               /\ resp'.status = 404
               /\ resp'.code = "JOB_NOT_FOUND"
               /\ jobs' = jobs /\ videos' = videos /\ queue' = queue]_vars

\* C34 witness: an updateStatus for an id that has no row was answered 404
\* JOB_NOT_FOUND; the one job there is still queued at progress 0, its video
\* pending and its descriptor on the queue.
C34_Witness ==
  /\ resp.op = "updateStatus"
  /\ resp.code = "JOB_NOT_FOUND"
  /\ DOMAIN jobs = {1}
  /\ jobs[1].status = "queued"
  /\ jobs[1].progress = 0
  /\ videos[jobs[1].video_id].status = "pending"
  /\ OnQueue(1)

\* C35: in every reachable state a job row has a completed_at if and only if
\* its status is completed.
C35_CompletedAtIffCompleted ==
  \A j \in DOMAIN jobs : jobs[j].completed_at # Null <=> jobs[j].status = "completed"

\* C36: no step of an updateStatus whose status is queued, in_progress or
\* cancelled changes a video row, and no step of a create, an updateStatus or a
\* cancel changes a video's status to pending or processing.
C36_OnlyOutcomesReachVideo ==
  [][\A p \in Procs :
       /\ (/\ Runs(p)
           /\ req[p].op = "updateStatus"
           /\ req[p].status \in {"queued", "in_progress", "cancelled"})
            => videos' = videos
       /\ (Runs(p) /\ req[p].op \in {"create", "updateStatus", "cancel"})
            => \A v \in DOMAIN videos \cap DOMAIN videos' :
                 videos'[v].status # videos[v].status
                   => videos'[v].status \notin {"pending", "processing"}]_vars

\* C36 witness: a job reported failed, which made its video failed, was then
\* set cancelled by an updateStatus that was answered 200, and the video is
\* still failed.
C36_Witness ==
  /\ resp.op = "updateStatus"
  /\ resp.status = 200
  /\ \E j \in DOMAIN jobs :
       /\ jobs[j].status = "cancelled"
       /\ jobs[j].error_message = "e1"
       /\ jobs[j].video_id \in DOMAIN videos
       /\ videos[jobs[j].video_id].status = "failed"

\* C37: the step of upload that inserts the job adds one row, for a video whose
\* row is there, with type metadata_extraction, status queued and priority 5;
\* the step that answers 201 adds one descriptor, which carries the ids of that
\* job and of the video; and when an upload is answered with an error, its
\* video row, if there is one, has the descriptor of its job on the queue.
C37_UploadQueuesInitialJob ==
  [][\A p \in Procs :
       /\ (pc[p] = "up_job" /\ pc'[p] = "up_publish")
            => /\ loc[p].videoId \in DOMAIN videos
               /\ loc[p].jobId \notin DOMAIN jobs
               /\ DOMAIN jobs' = DOMAIN jobs \cup {loc[p].jobId}
               /\ \A j \in DOMAIN jobs : jobs'[j] = jobs[j]
               /\ jobs'[loc[p].jobId] =
                    NewJobRow(loc[p].videoId, "metadata_extraction", 5, Null)
               /\ queue' = queue
       /\ (req[p].op = "upload" /\ Answers(p) /\ resp'.status = 201)
            => /\ pc[p] = "up_publish"
               /\ jobs' = jobs
               /\ Len(queue') = Len(queue) + 1
               /\ queue' = <<queue'[1]>> \o queue
               /\ queue'[1].job_id = loc[p].jobId
               /\ queue'[1].video_id = loc[p].videoId
       /\ (/\ req[p].op = "upload"
           /\ Answers(p)
           /\ resp'.status >= 400
           /\ loc[p].videoId \in DOMAIN videos')
            => \E i \in 1..Len(queue') :
                 /\ queue'[i].job_id = loc[p].jobId
                 /\ queue'[i].video_id = loc[p].videoId]_vars

\* C38: when a delete is answered 200 the video row is gone, with the tags its
\* statement found and every job row of the video; when it is answered with an
\* error after its statements have run, the tags and the job rows they removed
\* are there again.
C38_DeleteAllOrNothing ==
  [][\A p \in Procs :
       (req[p].op = "delete" /\ Answers(p))
         => IF resp'.status = 200
              THEN /\ req[p].id \notin DOMAIN videos'
                   /\ loc[p].removedTags => req[p].id \notin tags'
                   /\ \A j \in DOMAIN jobs' : jobs'[j].video_id # req[p].id
              ELSE /\ loc[p].removedTags => req[p].id \in tags'
                   /\ loc[p].removedJobs \subseteq DOMAIN jobs']_vars

HasEmail(e) == \E u \in DOMAIN users : users[u].email = e

\* C39: no two user rows have the same email; the step of register that reads
\* answers 409 USER_EXISTS when a user has the email, and creates no user, no
\* token and no session; and of the registers that go on to insert with one
\* email, the first adds one user and every later one adds none.
C39_EmailsUnique ==
  /\ [](\A u, w \in DOMAIN users : users[u].email = users[w].email => u = w)
  /\ [][\A p \in Procs :
          /\ (pc[p] = "reg_read" /\ Runs(p) /\ HasEmail(req[p].email))
               => /\ Answers(p)
                  /\ resp'.status = 409
                  /\ resp'.code = "USER_EXISTS"
                  /\ users' = users /\ tokens' = tokens /\ sessions' = sessions
          /\ (pc[p] = "reg_insert" /\ Runs(p))
               => IF HasEmail(req[p].email)
                    THEN /\ Answers(p)
                         /\ resp'.status >= 400
                         /\ users' = users /\ tokens' = tokens /\ sessions' = sessions
                    ELSE /\ DOMAIN users' = DOMAIN users \cup {loc[p].userId}
                         /\ loc[p].userId \notin DOMAIN users
                         /\ \A u \in DOMAIN users : users'[u] = users[u]
                         /\ users'[loc[p].userId].email = req[p].email]_vars

\* C39 witness: of two registers, one has created the one user there is, with
\* its token and session, and the other, which had read before that user was
\* inserted, was answered with an error.
C39_Witness ==
  /\ nreq = 2
  /\ pc = [p \in Procs |-> "done"]
  /\ resp.op = "register"
  /\ resp.code = "REGISTRATION_ERROR"
  /\ Cardinality(DOMAIN users) = 1
  /\ sessions = DOMAIN users
  /\ tokens = DOMAIN users
====
